---- MODULE Spec2Model ----
(***************************************************************************)
(* Authentication and session-token subsystem of the job-portal backend:  *)
(* the request handlers of app/api/v1/auth.py over the user collection,   *)
(* the token collection and the Redis cache, with the JWT codec of        *)
(* app/utils.py and the authentication middleware of app/main.py.         *)
(*                                                                         *)
(* Each handler is one atomic action.  Time is in whole seconds.  The     *)
(* created_at / updated_at timestamps of the documents are not kept.      *)
(* Requests to the handlers without a token dependency carry no           *)
(* X-Auth-Token header.                                                    *)
(***************************************************************************)
EXTENDS Integers, Sequences, FiniteSets, TLC

VARIABLES
    users,      \* the UserDocument collection, in insertion order
    tokens,     \* the Token collection, in insertion order
    cache,      \* the Redis keyspace: key -> [value, expires] or NoEntry
    now,        \* the clock, in seconds
    req,        \* the request handled last
    resp,       \* the response to it
    mail,       \* the send_otp calls made while handling it, in order
    tasks,      \* the login requests in flight, by connection
    steps       \* number of requests and clock advances so far

vars == <<users, tokens, cache, now, req, resp, mail, tasks, steps>>

----------------------------------------------------------------------------
\* Bounds of the model

MaxSteps == 3

Usernames == {"alice", "bob"}
Passwords == {"pw1", "pw2"}
Hosts == {"10.0.0.1", "10.0.0.2"}
Salts == {"s1"}
None == "<None>"
Emails == {None, "bob@mail.io"}

----------------------------------------------------------------------------
\* Program constants

ACCESS_TOKEN_EXPIRE_MINUTES == 3600
DEFAULT_EXPIRE_MINUTES == 30
OTP_TTL == 120
TOKEN_TTL == 1800
OTP_MIN == 111
OTP_MAX == 999999
SECRET_KEY == "09d25e094faa6ca2556c818166b7a9563b93f7099f6f0f4caa6cf63b88e8d3e7"
ALGORITHM == "HS256"

HTTP_200_OK == 200
HTTP_201_CREATED == 201
HTTP_400_BAD_REQUEST == 400
HTTP_401_UNAUTHORIZED == 401
HTTP_404_NOT_FOUND == 404
HTTP_500_INTERNAL_SERVER_ERROR == 500

----------------------------------------------------------------------------
\* Password hashing (passlib bcrypt): a salted digest; verify re-derives it

hash_password(password, salt) ==
    [scheme |-> "bcrypt", salt |-> salt, digest |-> <<salt, password>>]

verify_password_any(password, hashed_password) ==
    hashed_password.scheme = "bcrypt"

verify_password(password, hashed_password) ==
    hashed_password.digest = <<hashed_password.salt, password>>

----------------------------------------------------------------------------
\* Token codec (python-jose, HS256)

NoHeader == [kind |-> "none"]
EmptyString == [kind |-> "str", text |-> ""]
Garbage == [kind |-> "str", text |-> "not-a-jwt"]

jwt_encode(claims, key, algorithm) ==
    [kind |-> "jwt", claims |-> claims, alg |-> algorithm, sig |-> <<key, claims>>]

\* timedelta(minutes = m) in seconds
timedelta_minutes(m) == m * 60

create_access_token_drops_data(data, expires_delta, utcnow) ==
    LET expire == IF expires_delta # 0
                  THEN utcnow + expires_delta
                  ELSE utcnow + timedelta_minutes(DEFAULT_EXPIRE_MINUTES)
    IN  jwt_encode([exp |-> expire], SECRET_KEY, ALGORITHM)

create_access_token_default_expiry(data, expires_delta, utcnow) ==
    LET expire == utcnow + timedelta_minutes(DEFAULT_EXPIRE_MINUTES)
        to_encode == [k \in DOMAIN data \cup {"exp"} |->
                        IF k = "exp" THEN expire ELSE data[k]]
    IN  jwt_encode(to_encode, SECRET_KEY, ALGORITHM)

\* expires_delta = 0 stands for both None and timedelta(0): each is falsy
create_access_token(data, expires_delta, utcnow) ==
    LET expire == IF expires_delta # 0
                  THEN utcnow + expires_delta
                  ELSE utcnow + timedelta_minutes(DEFAULT_EXPIRE_MINUTES)
        to_encode == [k \in DOMAIN data \cup {"exp"} |->
                        IF k = "exp" THEN expire ELSE data[k]]
    IN  jwt_encode(to_encode, SECRET_KEY, ALGORITHM)

jwt_decode_ignores_exp(token, key, algorithm, utcnow) ==
    IF token.kind # "jwt" THEN "JWTError"
    ELSE IF token.alg # algorithm THEN "JWTError"
    ELSE IF token.sig # <<key, token.claims>> THEN "JWTError"
    ELSE "ok"

\* jose.jwt.decode: the claims, or "JWTError"
jwt_decode(token, key, algorithm, utcnow) ==
    IF token.kind # "jwt" THEN "JWTError"
    ELSE IF token.alg # algorithm THEN "JWTError"
    ELSE IF token.sig # <<key, token.claims>> THEN "JWTError"
    ELSE IF "exp" \in DOMAIN token.claims /\ token.claims["exp"] < utcnow
         THEN "JWTError"
    ELSE "ok"

HTTPError(status_code, detail) ==
    [status |-> status_code, body |-> [desc |-> detail]]

ServerError ==
    [status |-> HTTP_500_INTERNAL_SERVER_ERROR,
     body |-> [text |-> "Internal Server Error"]]

Ok(status_code, body) == [status |-> status_code, body |-> body]

\* TokenManager.decode_access_token: [ok, username] or [ok = FALSE, error]
decode_access_token(x_auth_token, utcnow) ==
    IF x_auth_token = NoHeader
    THEN [ok |-> FALSE,
          error |-> HTTPError(HTTP_400_BAD_REQUEST, "x-auth-token header missing")]
    ELSE IF jwt_decode(x_auth_token, SECRET_KEY, ALGORITHM, utcnow) = "JWTError"
    THEN [ok |-> FALSE,
          error |-> HTTPError(HTTP_401_UNAUTHORIZED, "Invalid x_auth_token")]
    ELSE IF "sub" \notin DOMAIN x_auth_token.claims
    THEN [ok |-> FALSE,
          error |-> HTTPError(HTTP_401_UNAUTHORIZED, "Invalid x_auth_token")]
    ELSE [ok |-> TRUE, username |-> x_auth_token.claims["sub"]]

authenticate_any_request(x_auth_token, utcnow) ==
    LET _data == decode_access_token(x_auth_token, utcnow)
    IN  IF _data.ok THEN _data.username ELSE "raise"

\* BasicAuthBackend.authenticate under AuthenticationMiddleware: the display
\* name of request.user, None for an anonymous request, or "raise" when
\* decode_access_token raises (an HTTPException is no AuthenticationError,
\* so on_error does not catch it and the request ends as a server error)
authenticate(x_auth_token, utcnow) ==
    IF x_auth_token = NoHeader THEN None
    ELSE LET _data == decode_access_token(x_auth_token, utcnow)
         IN  IF _data.ok THEN _data.username ELSE "raise"

----------------------------------------------------------------------------
\* Redis

otp_key_without_host(username, host) == "user-otp-" \o username

otp_key(username, host) == "user-otp-" \o username \o "-" \o host
token_key(username, host) == "user-token-" \o username \o "-" \o host

CacheKeys ==
    {otp_key(u, h) : u \in Usernames, h \in Hosts}
        \cup {token_key(u, h) : u \in Usernames, h \in Hosts}

NoEntry == [absent |-> TRUE]

set_with_ttl_minutes(c, key, value, ttl, t) ==
    [c EXCEPT ![key] = [value |-> value, expires |-> t + ttl * 60]]

set_with_ttl_if_absent(c, key, value, ttl, t) ==
    IF c[key] # NoEntry /\ t < c[key].expires THEN c
    ELSE [c EXCEPT ![key] = [value |-> value, expires |-> t + ttl]]

\* SETEX: the key holds value until ttl seconds have passed
set_with_ttl(c, key, value, ttl, t) ==
    [c EXCEPT ![key] = [value |-> value, expires |-> t + ttl]]

get_key_ignores_expiry(c, key, t) ==
    IF c[key] = NoEntry THEN None ELSE c[key].value

\* GET: None once the key has expired
get_key(c, key, t) ==
    IF c[key] = NoEntry THEN None
    ELSE IF t >= c[key].expires THEN None
    ELSE c[key].value

\* generate_otp: str(random.randint(111, 999999)); the two ends of the range
OtpDraws == {OTP_MIN, OTP_MAX}
generate_otp(n) == ToString(n)

\* one call of smtp.send_otp: the message handed to the SMTP server
send_otp(email_to, subject, body) ==
    [email_to |-> email_to, subject |-> subject, body |-> body]

\* what a client may type as a code
OtpInputs == {generate_otp(n) : n \in OtpDraws} \cup {"000000"}

----------------------------------------------------------------------------
\* The collections

UserDocument(username, hashed, email) ==
    [username |-> username, password |-> hashed, email |-> email,
     role |-> "Admin", hashed_password |-> hashed,
     is_verify |-> FALSE, is_enabled |-> TRUE, is_delete |-> FALSE,
     is_mfa |-> FALSE, otp |-> None]

Token(username, token, active) ==
    [username |-> username, token |-> token, active |-> active]

\* find_one(UserDocument.username == username): index of the first match, 0 if none
find_one(us, username) ==
    IF \E i \in 1..Len(us) : us[i].username = username
    THEN CHOOSE i \in 1..Len(us) :
            /\ us[i].username = username
            /\ \A j \in 1..(i - 1) : us[j].username # username
    ELSE 0

RemoveAt(s, i) == SubSeq(s, 1, i - 1) \o SubSeq(s, i + 1, Len(s))

----------------------------------------------------------------------------
\* Handlers.  st is [users, tokens, cache]; t is the time of the request;
\* each handler yields the collections after the request and the response.

Reply(st, response) ==
    [users |-> st.users, tokens |-> st.tokens, cache |-> st.cache,
     resp |-> response, mail |-> <<>>]

\* POST /user.  `user.username in [documents]` compares a string with
\* documents and is never true, so the creation branch always runs; the
\* keyword mfa= is no field of UserDocument and is dropped.
str_eq_document(s, document) == FALSE

username_in_documents(username, docs) ==
    \E i \in 1..Len(docs) : str_eq_document(username, docs[i])

create_user_logs_in(st, username, password, email, is_mfa, salt) ==
    LET hashed_password == hash_password(password, salt)
        _user == UserDocument(username, hashed_password, email)
        access_token == create_access_token([sub |-> username],
                            timedelta_minutes(ACCESS_TOKEN_EXPIRE_MINUTES), 0)
    IN  [Reply(st, Ok(HTTP_201_CREATED,
                      [msg |-> "User created in successfully",
                       access_token |-> access_token]))
           EXCEPT !.users = Append(st.users, _user),
                  !.tokens = Append(st.tokens,
                                    Token(username, access_token, FALSE))]

create_user(st, username, password, email, is_mfa, salt) ==
    IF username_in_documents(username, st.users)
    THEN LET user_in_db == st.users[find_one(st.users, username)]
         IN  IF ~verify_password(password, user_in_db.hashed_password)
             THEN Reply(st, HTTPError(HTTP_401_UNAUTHORIZED,
                                      "Incorrect username or password"))
             ELSE Reply(st, Ok(HTTP_201_CREATED,
                               [msg |-> "User created in successfully"]))
    ELSE LET hashed_password == hash_password(password, salt)
             _user == UserDocument(username, hashed_password, email)
         IN  [Reply(st, Ok(HTTP_201_CREATED,
                           [msg |-> "User created in successfully"]))
                EXCEPT !.users = Append(st.users, _user)]

\* POST /user/mfa
mfa_enabled(st, username, is_mfa) ==
    LET i == find_one(st.users, username)
    IN  IF i = 0
        THEN Reply(st, HTTPError(HTTP_404_NOT_FOUND, "User not found"))
        ELSE [Reply(st, Ok(HTTP_200_OK,
                  [msg |-> IF is_mfa THEN "MFA enabled successfully"
                                     ELSE "MFA disabled successfully"]))
                EXCEPT !.users = [st.users EXCEPT ![i].is_mfa = is_mfa]]

issue_token_marks_active(st, username, host, t, insertOk, msg) ==
    LET access_token_expires == timedelta_minutes(ACCESS_TOKEN_EXPIRE_MINUTES)
        access_token == create_access_token([sub |-> username],
                                            access_token_expires, t)
        c2 == set_with_ttl(st.cache, token_key(username, host),
                           access_token, TOKEN_TTL, t)
    IN  IF ~insertOk
        THEN [Reply(st, ServerError) EXCEPT !.cache = c2]
        ELSE [Reply(st, Ok(HTTP_200_OK,
                           [msg |-> msg, access_token |-> access_token,
                            token_type |-> "bearer"]))
                EXCEPT !.cache = c2,
                       !.tokens = Append(st.tokens,
                                         Token(username, access_token, TRUE))]

\* Lines 453-474 and 523-544: issue, cache and record the access token
issue_token(st, username, host, t, insertOk, msg) ==
    LET access_token_expires == timedelta_minutes(ACCESS_TOKEN_EXPIRE_MINUTES)
        access_token == create_access_token([sub |-> username],
                                            access_token_expires, t)
        c2 == set_with_ttl(st.cache, token_key(username, host),
                           access_token, TOKEN_TTL, t)
    IN  IF ~insertOk
        THEN [Reply(st, ServerError) EXCEPT !.cache = c2]
        ELSE [Reply(st, Ok(HTTP_200_OK,
                           [msg |-> msg, access_token |-> access_token,
                            token_type |-> "bearer"]))
                EXCEPT !.cache = c2,
                       !.tokens = Append(st.tokens,
                                         Token(username, access_token, FALSE))]

mfa_challenge_issues_token(st, i, host, username, draw, t, sendOk) ==
    issue_token(st, username, host, t, TRUE, "Login successful")

mfa_challenge_skips_email_check(st, i, host, username, draw, t, sendOk) ==
    LET otp == generate_otp(draw)
        c2 == set_with_ttl(st.cache, otp_key(username, host), otp, OTP_TTL, t)
        sent == <<send_otp(st.users[i].email, "Your OTP Code",
                           "Your OTP code is " \o otp)>>
    IN  [Reply(st, Ok(HTTP_200_OK,
                  [msg |-> "OTP sent to your email and otp is expired in 2 minites"]))
           EXCEPT !.cache = c2, !.mail = sent]

mfa_challenge_swallows_send_error(st, i, host, username, draw, t, sendOk) ==
    IF st.users[i].email \in {None, ""}
    THEN Reply(st, HTTPError(HTTP_400_BAD_REQUEST,
                             "Activate MFA for enhanced security features, If mfa is Enabled then Please update your email in user settings for OTP verification."))
    ELSE LET otp == generate_otp(draw)
             c2 == set_with_ttl(st.cache, otp_key(username, host),
                                otp, OTP_TTL, t)
             sent == <<send_otp(st.users[i].email, "Your OTP Code",
                                "Your OTP code is " \o otp)>>
         IN  [Reply(st, Ok(HTTP_200_OK,
                       [msg |-> "OTP sent to your email and otp is expired in 2 minites"]))
                EXCEPT !.cache = c2, !.mail = sent]

\* Lines 425-451 of login_user: the MFA branch for the user at index i
mfa_challenge(st, i, host, username, draw, t, sendOk) ==
    IF st.users[i].email \in {None, ""}
    THEN Reply(st, HTTPError(HTTP_400_BAD_REQUEST,
                             "Activate MFA for enhanced security features, If mfa is Enabled then Please update your email in user settings for OTP verification."))
    ELSE LET otp == generate_otp(draw)
             c2 == set_with_ttl(st.cache, otp_key(username, host),
                                otp, OTP_TTL, t)
             sent == <<send_otp(st.users[i].email, "Your OTP Code",
                                "Your OTP code is " \o otp)>>
         IN  IF ~sendOk
             THEN [Reply(st, ServerError) EXCEPT !.cache = c2, !.mail = sent]
             ELSE [Reply(st, Ok(HTTP_200_OK,
                       [msg |-> "OTP sent to your email and otp is expired in 2 minites"]))
                     EXCEPT !.cache = c2, !.mail = sent]

login_user_rejects_deleted(st, host, username, password, draw, t, sendOk, insertOk) ==
    LET i == find_one(st.users, username)
    IN  IF i = 0
        THEN Reply(st, HTTPError(HTTP_401_UNAUTHORIZED,
                                 "Incorrect username  or password"))
        ELSE IF ~verify_password(password, st.users[i].hashed_password)
        THEN Reply(st, HTTPError(HTTP_401_UNAUTHORIZED,
                                 "Incorrect username or password"))
        ELSE IF st.users[i].is_delete
        THEN Reply(st, HTTPError(HTTP_401_UNAUTHORIZED,
                                 "Incorrect username or password"))
        ELSE IF st.users[i].is_mfa
        THEN mfa_challenge(st, i, host, username, draw, t, sendOk)
        ELSE issue_token(st, username, host, t, insertOk, "Login successful")

\* POST /auth
login_user(st, host, username, password, draw, t, sendOk, insertOk) ==
    LET i == find_one(st.users, username)
    IN  IF i = 0
        THEN Reply(st, HTTPError(HTTP_401_UNAUTHORIZED,
                                 "Incorrect username  or password"))
        ELSE IF ~verify_password(password, st.users[i].hashed_password)
        THEN Reply(st, HTTPError(HTTP_401_UNAUTHORIZED,
                                 "Incorrect username or password"))
        ELSE IF st.users[i].is_mfa
        THEN mfa_challenge(st, i, host, username, draw, t, sendOk)
        ELSE issue_token(st, username, host, t, insertOk, "Login successful")

otp_mismatch_bytes(_otp, otp) == TRUE

otp_mismatch_empty_only(_otp, otp) == otp = ""

\* Line 514 of verify_otp: the cached code against the submitted one
otp_mismatch(_otp, otp) == _otp # otp

verify_otp_no_record(st, host, username, otp, t, saveOk, insertOk) ==
    LET i == find_one(st.users, username)
        _otp == get_key(st.cache, otp_key(username, host), t)
        access_token == create_access_token([sub |-> username],
                            timedelta_minutes(ACCESS_TOKEN_EXPIRE_MINUTES), t)
    IN  IF i = 0
        THEN Reply(st, HTTPError(HTTP_404_NOT_FOUND, "User not found"))
        ELSE IF _otp \in {None, ""}
        THEN Reply(st, Ok(HTTP_200_OK,
                          [desc |-> "OTP is Expired please reagain login"]))
        ELSE IF otp_mismatch(_otp, otp)
        THEN Reply(st, HTTPError(HTTP_401_UNAUTHORIZED, "Unauthorized"))
        ELSE [Reply(st, Ok(HTTP_200_OK,
                           [msg |-> "OTP verified and Login successfully",
                            access_token |-> access_token,
                            token_type |-> "bearer"]))
                EXCEPT !.cache = set_with_ttl(st.cache,
                                    token_key(username, host), access_token,
                                    TOKEN_TTL, t)]

verify_otp_burns_code_on_mismatch(st, host, username, otp, t, saveOk, insertOk) ==
    LET i == find_one(st.users, username)
        _otp == get_key(st.cache, otp_key(username, host), t)
    IN  IF i = 0
        THEN Reply(st, HTTPError(HTTP_404_NOT_FOUND, "User not found"))
        ELSE IF _otp \in {None, ""}
        THEN Reply(st, Ok(HTTP_200_OK,
                          [desc |-> "OTP is Expired please reagain login"]))
        ELSE IF otp_mismatch(_otp, otp)
        THEN [Reply(st, HTTPError(HTTP_401_UNAUTHORIZED, "Unauthorized"))
                EXCEPT !.cache = [st.cache EXCEPT
                                    ![otp_key(username, host)] = NoEntry]]
        ELSE IF ~saveOk
        THEN Reply(st, ServerError)
        ELSE issue_token([st EXCEPT !.users[i].otp = None], username, host, t,
                         insertOk, "OTP verified and Login successfully")

\* POST /auth/verifyotp
verify_otp(st, host, username, otp, t, saveOk, insertOk) ==
    LET i == find_one(st.users, username)
        _otp == get_key(st.cache, otp_key(username, host), t)
    IN  IF i = 0
        THEN Reply(st, HTTPError(HTTP_404_NOT_FOUND, "User not found"))
        ELSE IF _otp \in {None, ""}
        THEN Reply(st, Ok(HTTP_200_OK,
                          [desc |-> "OTP is Expired please reagain login"]))
        ELSE IF otp_mismatch(_otp, otp)
        THEN Reply(st, HTTPError(HTTP_401_UNAUTHORIZED, "Unauthorized"))
        ELSE IF ~saveOk
        THEN Reply(st, ServerError)
        ELSE issue_token([st EXCEPT !.users[i].otp = None], username, host, t,
                         insertOk, "OTP verified and Login successfully")

\* Middleware and the Depends(decode_access_token) of a protected route:
\* the response that ends the request before the handler runs, or Pass
Pass == [pass |-> TRUE]

token_dependency(x_auth_token, t) ==
    IF authenticate(x_auth_token, t) = "raise" THEN ServerError
    ELSE IF ~decode_access_token(x_auth_token, t).ok
    THEN decode_access_token(x_auth_token, t).error
    ELSE Pass

mark_disabled(us, i) == [us EXCEPT ![i].is_enabled = FALSE]

\* Line 584 of logout_user: user_in_db.is_delete = True
mark_deleted(us, i) == [us EXCEPT ![i].is_delete = TRUE]

logout_user_ignores_failures(st, x_auth_token, t, saveOk, insertOk) ==
    IF token_dependency(x_auth_token, t) # Pass
    THEN Reply(st, token_dependency(x_auth_token, t))
    ELSE LET token_data == decode_access_token(x_auth_token, t)
             i == find_one(st.users, token_data.username)
             display_name == authenticate(x_auth_token, t)
         IN  IF i = 0
             THEN Reply(st, HTTPError(HTTP_404_NOT_FOUND, "User not found"))
             ELSE [Reply(st, Ok(HTTP_200_OK,
                                [msg |-> "User logged out successfully"]))
                     EXCEPT !.users = IF saveOk THEN mark_deleted(st.users, i)
                                      ELSE st.users,
                            !.tokens = IF saveOk /\ insertOk
                                       THEN Append(st.tokens,
                                             Token(display_name, EmptyString, FALSE))
                                       ELSE st.tokens]

\* DELETE /auth
logout_user(st, x_auth_token, t, saveOk, insertOk) ==
    IF token_dependency(x_auth_token, t) # Pass
    THEN Reply(st, token_dependency(x_auth_token, t))
    ELSE LET token_data == decode_access_token(x_auth_token, t)
             i == find_one(st.users, token_data.username)
             display_name == authenticate(x_auth_token, t)
         IN  IF i = 0
             THEN Reply(st, HTTPError(HTTP_404_NOT_FOUND, "User not found"))
             ELSE IF ~saveOk
             THEN Reply(st, HTTPError(HTTP_500_INTERNAL_SERVER_ERROR,
                                      "Error logging out user"))
             ELSE IF ~insertOk
             THEN [Reply(st, HTTPError(HTTP_500_INTERNAL_SERVER_ERROR,
                                       "Error deactivating token"))
                     EXCEPT !.users = mark_deleted(st.users, i)]
             ELSE [Reply(st, Ok(HTTP_200_OK,
                                [msg |-> "User logged out successfully"]))
                     EXCEPT !.users = mark_deleted(st.users, i),
                            !.tokens = Append(st.tokens,
                                  Token(display_name, EmptyString, FALSE))]

\* POST /user/token_verify
verify_token(st, x_auth_token, t) ==
    IF token_dependency(x_auth_token, t) # Pass
    THEN Reply(st, token_dependency(x_auth_token, t))
    ELSE LET token_data == decode_access_token(x_auth_token, t)
             i == find_one(st.users, token_data.username)
         IN  IF i = 0
             THEN Reply(st, HTTPError(HTTP_404_NOT_FOUND, "User not found"))
             ELSE [Reply(st, Ok(HTTP_200_OK,
                       [msg |-> "Token is valid and user verification updated"]))
                     EXCEPT !.users = [st.users EXCEPT ![i].is_verify = TRUE]]

change_password_skips_old_check(st, x_auth_token, old_password, new_password, verify_new_password, salt, t) ==
    IF token_dependency(x_auth_token, t) # Pass
    THEN Reply(st, token_dependency(x_auth_token, t))
    ELSE LET token_data == decode_access_token(x_auth_token, t)
             i == find_one(st.users, token_data.username)
             new_hashed_password == hash_password(new_password, salt)
         IN  IF i = 0
             THEN Reply(st, HTTPError(HTTP_404_NOT_FOUND, "User not found"))
             ELSE IF new_password # verify_new_password
             THEN Reply(st, HTTPError(HTTP_400_BAD_REQUEST,
                        "New password and verify new password do not match"))
             ELSE [Reply(st, Ok(HTTP_200_OK,
                                [msg |-> "Password changed successfully"]))
                     EXCEPT !.users = [st.users EXCEPT
                                ![i].hashed_password = new_hashed_password,
                                ![i].password = new_hashed_password]]

\* PATCH /user
change_password(st, x_auth_token, old_password, new_password, verify_new_password, salt, t) ==
    IF token_dependency(x_auth_token, t) # Pass
    THEN Reply(st, token_dependency(x_auth_token, t))
    ELSE LET token_data == decode_access_token(x_auth_token, t)
             i == find_one(st.users, token_data.username)
             new_hashed_password == hash_password(new_password, salt)
         IN  IF i = 0
             THEN Reply(st, HTTPError(HTTP_404_NOT_FOUND, "User not found"))
             ELSE IF ~verify_password(old_password,
                                      st.users[i].hashed_password)
             THEN Reply(st, HTTPError(HTTP_401_UNAUTHORIZED,
                                      "Incorrect old password"))
             ELSE IF new_password # verify_new_password
             THEN Reply(st, HTTPError(HTTP_400_BAD_REQUEST,
                        "New password and verify new password do not match"))
             ELSE [Reply(st, Ok(HTTP_200_OK,
                                [msg |-> "Password changed successfully"]))
                     EXCEPT !.users = [st.users EXCEPT
                                ![i].hashed_password = new_hashed_password,
                                ![i].password = new_hashed_password]]

UpdateUser_keeps_username(body) ==
    [k \in DOMAIN body \cap {"username", "email", "role", "is_enabled"}
        |-> body[k]]

\* schemas.UpdateUser parsed from the request body, then
\* .dict(exclude_unset=True): the fields of the schema that the body sets;
\* any other key of the body is ignored
UpdateUser(body) ==
    [k \in DOMAIN body \cap {"email", "role", "is_enabled"} |-> body[k]]

\* PATCH /user/{username}: setattr(user_in_db, key, value) for each item
update_user(st, username, body) ==
    LET i == find_one(st.users, username)
        update_data == UpdateUser(body)
    IN  IF i = 0
        THEN Reply(st, HTTPError(HTTP_404_NOT_FOUND, "User not found"))
        ELSE [Reply(st, Ok(HTTP_200_OK, [msg |-> "User updated successfully"]))
                EXCEPT !.users = [st.users EXCEPT ![i] =
                    [k \in DOMAIN @ |-> IF k \in DOMAIN update_data
                                        THEN update_data[k] ELSE @[k]]]]

\* DELETE /user/{username}
delete_user(st, x_auth_token, username, t) ==
    IF token_dependency(x_auth_token, t) # Pass
    THEN Reply(st, token_dependency(x_auth_token, t))
    ELSE LET i == find_one(st.users, username)
         IN  IF i = 0
             THEN Reply(st, HTTPError(HTTP_404_NOT_FOUND, "User not found"))
             ELSE [Reply(st, Ok(HTTP_200_OK,
                                [msg |-> "User deleted successfully"]))
                     EXCEPT !.users = RemoveAt(st.users, i)]

----------------------------------------------------------------------------
\* The state machine

\* User documents that create_user followed by mfa_enabled leaves in the
\* database; the database outlives the process, so a run may start with some.
\* Usernames and passwords are interchangeable: the stored ones are fixed.
StoredUsers ==
    {[UserDocument("bob", hash_password("pw1", s), e) EXCEPT !.is_mfa = m] :
        s \in Salts, e \in Emails, m \in BOOLEAN}

\* The user collection at the start: empty, or one stored user
StoredCollections == {<<>>} \cup {<<d>> : d \in StoredUsers}

NoResponse == [status |-> 0, body |-> [text |-> ""]]

\* Header values a client may send: none, a malformed string, a token this
\* service issued, or a token signed with another key
ForgedTokens(t) ==
    {jwt_encode([sub |-> "bob",
                 exp |-> t + timedelta_minutes(DEFAULT_EXPIRE_MINUTES)],
                "attacker-key", ALGORITHM)}

HeaderValues(tks, t) ==
    {NoHeader, Garbage} \cup ForgedTokens(t)
        \cup {tks[i].token : i \in 1..Len(tks)}

NewPasswords == {"pw2"}

\* Clock advances: to just before and to the end of the OTP's time to live,
\* to the expiry of an access token and one second past it
TickSteps ==
    {OTP_TTL - 1, OTP_TTL,
     timedelta_minutes(ACCESS_TOKEN_EXPIRE_MINUTES),
     timedelta_minutes(ACCESS_TOKEN_EXPIRE_MINUTES) + 1}

Init ==
    /\ users \in StoredCollections
    /\ tokens = <<>>
    /\ cache = [k \in CacheKeys |-> NoEntry]
    /\ now = 0
    /\ req = [op |-> "start"]
    /\ resp = NoResponse
    /\ mail = <<>>
    /\ tasks = <<>>
    /\ steps = 0

State == [users |-> users, tokens |-> tokens, cache |-> cache]

Handle(request, result) ==
    /\ steps < MaxSteps
    /\ steps' = steps + 1
    /\ req' = request
    /\ users' = result.users
    /\ tokens' = result.tokens
    /\ cache' = result.cache
    /\ resp' = result.resp
    /\ mail' = result.mail
    /\ now' = now
    /\ UNCHANGED tasks

CreateUser ==
    \E u \in Usernames, p \in Passwords, e \in Emails, m \in BOOLEAN,
       s \in Salts :
        Handle([op |-> "create_user", username |-> u, password |-> p,
                email |-> e, is_mfa |-> m],
               create_user(State, u, p, e, m, s))

MfaEnabled ==
    \E u \in Usernames, m \in BOOLEAN :
        Handle([op |-> "mfa_enabled", username |-> u, is_mfa |-> m],
               mfa_enabled(State, u, m))

LoginUser ==
    \E h \in Hosts, u \in Usernames, p \in Passwords, n \in OtpDraws :
        Handle([op |-> "login_user", host |-> h, username |-> u,
                password |-> p],
               login_user(State, h, u, p, n, now, TRUE, TRUE))

VerifyOtp ==
    \E h \in Hosts, u \in Usernames, o \in OtpInputs :
        Handle([op |-> "verify_otp", host |-> h, username |-> u, otp |-> o],
               verify_otp(State, h, u, o, now, TRUE, TRUE))

LogoutUser ==
    \E x \in HeaderValues(tokens, now) :
        Handle([op |-> "logout_user", x_auth_token |-> x],
               logout_user(State, x, now, TRUE, TRUE))

VerifyToken ==
    \E x \in HeaderValues(tokens, now) :
        Handle([op |-> "verify_token", x_auth_token |-> x],
               verify_token(State, x, now))

ChangePassword ==
    \E x \in HeaderValues(tokens, now), o \in Passwords,
       n \in NewPasswords, v \in Passwords, s \in Salts :
        Handle([op |-> "change_password", x_auth_token |-> x,
                old_password |-> o, new_password |-> n,
                verify_new_password |-> v],
               change_password(State, x, o, n, v, s, now))

DeleteUser ==
    \E x \in HeaderValues(tokens, now), u \in Usernames :
        Handle([op |-> "delete_user", x_auth_token |-> x, username |-> u],
               delete_user(State, x, u, now))

\* Request bodies of PATCH /user/{username}: a new email for a disabled
\* account, and a body that also names a username
UpdateBodies ==
    {[email |-> "bob@mail.io", is_enabled |-> FALSE],
     [username |-> "alice", role |-> "User"]}

UpdateUserAction ==
    \E u \in Usernames, b \in UpdateBodies :
        Handle([op |-> "update_user", username |-> u, body |-> b],
               update_user(State, u, b))

Tick ==
    \E d \in TickSteps :
        /\ steps < MaxSteps
        /\ steps' = steps + 1
        /\ now' = now + d
        /\ req' = [op |-> "tick", seconds |-> d]
        /\ resp' = NoResponse
        /\ mail' = <<>>
        /\ UNCHANGED <<users, tokens, cache, tasks>>

Next ==
    \/ CreateUser
    \/ MfaEnabled
    \/ LoginUser
    \/ VerifyOtp
    \/ LogoutUser
    \/ VerifyToken
    \/ ChangePassword
    \/ DeleteUser
    \/ UpdateUserAction
    \/ Tick

Spec == Init /\ [][Next]_vars

----------------------------------------------------------------------------
\* The same service when a collaborator may fail: the mail server in
\* send_otp, the save of the user document, the insert of a Token document.
\* At most one of them fails in a request; req.fault names it.  The
\* handlers that call none of the three are left out.

FaultLoginUser ==
    \E h \in Hosts, u \in Usernames, p \in Passwords, n \in OtpDraws,
       f \in {"none", "send_otp", "insert"} :
        Handle([op |-> "login_user", host |-> h, username |-> u,
                password |-> p, fault |-> f],
               login_user(State, h, u, p, n, now,
                          f # "send_otp", f # "insert"))

FaultVerifyOtp ==
    \E h \in Hosts, u \in Usernames, o \in OtpInputs,
       f \in {"none", "save", "insert"} :
        Handle([op |-> "verify_otp", host |-> h, username |-> u, otp |-> o,
                fault |-> f],
               verify_otp(State, h, u, o, now, f # "save", f # "insert"))

FaultLogoutUser ==
    \E x \in HeaderValues(tokens, now), f \in {"none", "save", "insert"} :
        Handle([op |-> "logout_user", x_auth_token |-> x, fault |-> f],
               logout_user(State, x, now, f # "save", f # "insert"))

FaultNext ==
    \/ CreateUser
    \/ MfaEnabled
    \/ FaultLoginUser
    \/ FaultVerifyOtp
    \/ FaultLogoutUser
    \/ Tick

FaultSpec == Init /\ [][FaultNext]_vars

----------------------------------------------------------------------------
\* Two login requests in flight at once.  A coroutine of login_user runs
\* without interruption between two awaits: it is suspended at
\* UserDocument.find_one, and then at send_otp (MFA) or at Token.insert.
\* Between them it verifies the password, draws the OTP or creates the
\* token, and writes the cache with the synchronous Redis client.
\* verify_otp requests and clock advances follow once both have answered.

Conns == {"c1", "c2"}

IdleTask ==
    [pc |-> "idle", host |-> None, username |-> None, password |-> None,
     user_in_db |-> <<>>, otp |-> None, wrote |-> 0, pending |-> <<>>,
     resp |-> NoResponse, mail |-> <<>>]

\* number of OTP cache writes made so far by the logins in flight
OtpWrites(ts) == Cardinality({c \in Conns : ts[c].wrote # 0})

ConcInit ==
    /\ users \in StoredCollections
    /\ tokens = <<>>
    /\ cache = [k \in CacheKeys |-> NoEntry]
    /\ now = 0
    /\ req = [op |-> "start"]
    /\ resp = NoResponse
    /\ mail = <<>>
    /\ tasks = [c \in Conns |-> IdleTask]
    /\ steps = 0

\* the request arrives and the coroutine awaits find_one
LoginReceive(c) ==
    /\ tasks[c].pc = "idle"
    /\ \E h \in Hosts, u \in Usernames, p \in Passwords :
          tasks' = [tasks EXCEPT ![c] =
                      [@ EXCEPT !.pc = "find_one", !.host = h,
                                !.username = u, !.password = p]]
    /\ UNCHANGED <<users, tokens, cache, now, req, resp, mail, steps>>

\* the database answers find_one
LoginFindOne(c) ==
    /\ tasks[c].pc = "find_one"
    /\ LET i == find_one(users, tasks[c].username)
       IN  tasks' = [tasks EXCEPT ![c] =
                      [@ EXCEPT !.pc = "resume",
                                !.user_in_db = IF i = 0 THEN <<>>
                                               ELSE <<users[i]>>]]
    /\ UNCHANGED <<users, tokens, cache, now, req, resp, mail, steps>>

\* the coroutine resumes with user_in_db and runs to its next await, or to
\* the response when it raises before one
LoginResume(c) ==
    /\ tasks[c].pc = "resume"
    /\ \E n \in OtpDraws :
          LET t == tasks[c]
              r == login_user([users |-> t.user_in_db, tokens |-> <<>>,
                               cache |-> cache],
                              t.host, t.username, t.password, n, now,
                              TRUE, TRUE)
          IN  /\ cache' = r.cache
              /\ tasks' = [tasks EXCEPT ![c] =
                    IF r.mail # <<>>
                    THEN [@ EXCEPT !.pc = "send_otp",
                                   !.otp = generate_otp(n),
                                   !.wrote = OtpWrites(tasks) + 1,
                                   !.pending = <<r>>]
                    ELSE IF r.tokens # <<>>
                    THEN [@ EXCEPT !.pc = "insert", !.pending = <<r>>]
                    ELSE [@ EXCEPT !.pc = "done", !.resp = r.resp]]
    /\ UNCHANGED <<users, tokens, now, req, resp, mail, steps>>

\* send_otp returns and the handler answers with the acknowledgment
LoginSendOtp(c) ==
    /\ tasks[c].pc = "send_otp"
    /\ tasks' = [tasks EXCEPT ![c] =
                    [@ EXCEPT !.pc = "done", !.pending = <<>>,
                              !.resp = tasks[c].pending[1].resp,
                              !.mail = tasks[c].pending[1].mail]]
    /\ UNCHANGED <<users, tokens, cache, now, req, resp, mail, steps>>

\* Token.insert returns and the handler answers with the token
LoginInsert(c) ==
    /\ tasks[c].pc = "insert"
    /\ tokens' = tokens \o tasks[c].pending[1].tokens
    /\ tasks' = [tasks EXCEPT ![c] =
                    [@ EXCEPT !.pc = "done", !.pending = <<>>,
                              !.resp = tasks[c].pending[1].resp]]
    /\ UNCHANGED <<users, cache, now, req, resp, mail, steps>>

AllAnswered == \A c \in Conns : tasks[c].pc = "done"

ConcVerifyOtp == AllAnswered /\ VerifyOtp

ConcTick == AllAnswered /\ Tick

ConcNext ==
    \/ \E c \in Conns : LoginReceive(c)
    \/ \E c \in Conns : LoginFindOne(c)
    \/ \E c \in Conns : LoginResume(c)
    \/ \E c \in Conns : LoginSendOtp(c)
    \/ \E c \in Conns : LoginInsert(c)
    \/ ConcVerifyOtp
    \/ ConcTick

ConcSpec == ConcInit /\ [][ConcNext]_vars

----------------------------------------------------------------------------
\* The token codec on its own: TokenManager.create_access_token and
\* TokenManager.decode_access_token applied to any subject and lifetime

Subjects == {"alice", "bob", "a", ""}
Lifetimes ==
    {-60, 0, 1, OTP_TTL, TOKEN_TTL,
     timedelta_minutes(ACCESS_TOKEN_EXPIRE_MINUTES)}
CodecTickSteps ==
    TickSteps \cup {1, timedelta_minutes(DEFAULT_EXPIRE_MINUTES)}

CodecInit ==
    /\ users = <<>>
    /\ tokens = <<>>
    /\ cache = [k \in CacheKeys |-> NoEntry]
    /\ now = 0
    /\ req = [op |-> "start"]
    /\ resp = NoResponse
    /\ mail = <<>>
    /\ tasks = <<>>
    /\ steps = 0

CodecIssue ==
    \E subject \in Subjects, ttl \in Lifetimes :
        /\ steps < MaxSteps
        /\ steps' = steps + 1
        /\ req' = [op |-> "issue", subject |-> subject, ttl |-> ttl,
                   issued_at |-> now]
        /\ resp' = Ok(HTTP_200_OK,
                      [access_token |->
                          create_access_token([sub |-> subject], ttl, now)])
        /\ UNCHANGED <<users, tokens, cache, now, mail, tasks>>

CodecDecode ==
    /\ steps < MaxSteps
    /\ req.op = "issue"
    /\ steps' = steps + 1
    /\ req' = [req EXCEPT !.op = "decode"]
    /\ resp' = LET token_data ==
                      decode_access_token(resp.body.access_token, now)
               IN  IF token_data.ok
                   THEN Ok(HTTP_200_OK, [username |-> token_data.username])
                   ELSE token_data.error
    /\ UNCHANGED <<users, tokens, cache, now, mail, tasks>>

CodecTick ==
    \E d \in CodecTickSteps :
        /\ steps < MaxSteps
        /\ steps' = steps + 1
        /\ now' = now + d
        /\ UNCHANGED <<users, tokens, cache, req, resp, mail, tasks>>

CodecNext == CodecIssue \/ CodecDecode \/ CodecTick

CodecSpec == CodecInit /\ [][CodecNext]_vars

----------------------------------------------------------------------------
\* Properties

\* the stored hash is a hash of this password
Matches(password, hashed_password) ==
    \E s \in Salts : hashed_password = hash_password(password, s)

HasToken(response) == "access_token" \in DOMAIN response.body

\* the record a lookup by username returns
Lookup(username) == find_one(users, username)

IsLogin == req.op = "login_user"

\* a token-bearing record of the Token collection (not a logout marker)
IssuedFor(tks, username) ==
    {i \in 1..Len(tks) :
        tks[i].username = username /\ tks[i].token # EmptyString}

C2_BadPasswordUnauthorized ==
    [][(/\ req'.op = "login_user"
        /\ Lookup(req'.username) # 0
        /\ ~Matches(req'.password,
                    users[Lookup(req'.username)].hashed_password))
       => /\ resp'.status = HTTP_401_UNAUTHORIZED
          /\ ~HasToken(resp')
          /\ tokens' = tokens]_vars

C2_Witness ==
    /\ IsLogin
    /\ Lookup(req.username) # 0
    /\ ~Matches(req.password, users[Lookup(req.username)].hashed_password)
    /\ resp.status = HTTP_401_UNAUTHORIZED

\* C3: while a user has is_mfa true, a login for that user appends nothing
\* to the Token collection, and a token-bearing record for that user is
\* appended only by a verify_otp whose code equals the cached OTP.
C3_MfaLoginWritesNoRecord ==
    [][\A u \in Usernames :
        (Lookup(u) # 0 /\ users[Lookup(u)].is_mfa)
        => /\ (req'.op = "login_user" /\ req'.username = u)
                => tokens' = tokens
           /\ (IssuedFor(tokens', u) # IssuedFor(tokens, u))
                => /\ req'.op = "verify_otp"
                   /\ req'.username = u
                   /\ get_key(cache, otp_key(u, req'.host), now) = req'.otp]_vars

C3_Witness ==
    /\ req.op = "verify_otp"
    /\ Lookup(req.username) # 0
    /\ users[Lookup(req.username)].is_mfa
    /\ Len(tokens) = 1
    /\ IssuedFor(tokens, req.username) = {1}

\* C4 as stated: login answers an unknown username exactly as it answers a
\* known username with a wrong password.
WrongPasswordResponse ==
    login_user([users |-> <<UserDocument("bob", hash_password("pw1", "s1"), None)>>,
                tokens |-> <<>>,
                cache |-> [k \in CacheKeys |-> NoEntry]],
               "10.0.0.1", "bob", "pw2", OTP_MIN, 0, TRUE, TRUE).resp

C4_UnknownUserSameResponse ==
    (IsLogin /\ Lookup(req.username) = 0) => resp = WrongPasswordResponse

\* the cache entry of the OTP of a username and host
OtpEntry(c, username, host) == c[otp_key(username, host)]

OtpExpiredResponse ==
    Ok(HTTP_200_OK, [desc |-> "OTP is Expired please reagain login"])

OtpSentResponse ==
    Ok(HTTP_200_OK,
       [msg |-> "OTP sent to your email and otp is expired in 2 minites"])

C7_WrongOtpUnauthorized ==
    [][(/\ req'.op = "verify_otp"
        /\ Lookup(req'.username) # 0
        /\ OtpEntry(cache, req'.username, req'.host) # NoEntry
        /\ now < OtpEntry(cache, req'.username, req'.host).expires
        /\ req'.otp # OtpEntry(cache, req'.username, req'.host).value)
       => /\ resp'.status = HTTP_401_UNAUTHORIZED
          /\ ~HasToken(resp')
          /\ cache' = cache
          /\ tokens' = tokens
          /\ users' = users]_vars

C7_Witness ==
    /\ req.op = "verify_otp"
    /\ OtpEntry(cache, req.username, req.host) # NoEntry
    /\ now < OtpEntry(cache, req.username, req.host).expires
    /\ req.otp # OtpEntry(cache, req.username, req.host).value
    /\ resp.status = HTTP_401_UNAUTHORIZED

\* C9: a logout with a valid token whose subject is an existing user sets
\* is_delete on that user's record, changes nothing else of it, and appends
\* exactly one Token record: that username, an empty token, active false.
C9_LogoutMarksDeletedAndAppends ==
    [][(/\ req'.op = "logout_user"
        /\ decode_access_token(req'.x_auth_token, now).ok
        /\ Lookup(decode_access_token(req'.x_auth_token, now).username) # 0)
       => LET sub == decode_access_token(req'.x_auth_token, now).username
          IN  /\ users'[Lookup(sub)].is_delete
              /\ users' = [users EXCEPT ![Lookup(sub)].is_delete = TRUE]
              /\ tokens' = Append(tokens, [username |-> sub,
                                           token |-> EmptyString,
                                           active |-> FALSE])
              /\ resp'.status = HTTP_200_OK]_vars

C9_Witness ==
    /\ req.op = "logout_user"
    /\ resp.status = HTTP_200_OK
    /\ Len(tokens) = 2
    /\ tokens[2] = [username |-> tokens[1].username, token |-> EmptyString,
                    active |-> FALSE]
    /\ users[Lookup(tokens[2].username)].is_delete

ProtectedOps ==
    {"logout_user", "change_password", "verify_token", "delete_user"}

\* C10 as stated: a token-protected operation called with no token fails
\* with Unauthorized (401).
C10_NoTokenUnauthorized ==
    (req.op \in ProtectedOps /\ req.x_auth_token = NoHeader)
    => resp.status = HTTP_401_UNAUTHORIZED

\* C10 amended: a token-protected operation (logout, change_password,
\* token_verify, delete_user) called with no token fails with BadRequest
\* (400, "x-auth-token header missing") and changes no user record, cache
\* entry or Token record.
C10_NoTokenBadRequest ==
    [][(req'.op \in ProtectedOps /\ req'.x_auth_token = NoHeader)
       => /\ resp' = HTTPError(HTTP_400_BAD_REQUEST,
                               "x-auth-token header missing")
          /\ users' = users
          /\ cache' = cache
          /\ tokens' = tokens]_vars

C10_Witness ==
    /\ req.op \in ProtectedOps
    /\ req.x_auth_token = NoHeader
    /\ resp.status = HTTP_400_BAD_REQUEST
    /\ Len(users) > 0

\* C8: for every non-empty subject and every positive lifetime, a token
\* made by create_access_token and decoded no later than its expiry
\* decodes to exactly that subject.
C8_RoundTrip ==
    (/\ req.op = "decode"
     /\ req.subject # ""
     /\ req.ttl > 0
     /\ now <= req.issued_at + req.ttl)
    => resp = Ok(HTTP_200_OK, [username |-> req.subject])

C8_Witness ==
    /\ req.op = "decode"
    /\ req.subject # ""
    /\ req.ttl > 0
    /\ now = req.issued_at + req.ttl
    /\ resp = Ok(HTTP_200_OK, [username |-> req.subject])

\* C11: a token that login or verify_otp issues at time t carries the expiry
\* t + 3600 minutes; decode_access_token accepts it, with its subject, at
\* every time before that expiry and rejects it with 401 at every time after.
C11_IssuedTokenExpiry ==
    [][\A k \in {j \in 1..Len(tokens') : tokens'[j].token # EmptyString} :
         LET tok == tokens'[k].token
             exp == tok.claims["exp"]
         IN  /\ k > Len(tokens)
                  => /\ req'.op \in {"login_user", "verify_otp"}
                     /\ resp'.body.access_token = tok
                     /\ exp = now + 3600 * 60
             /\ \A t \in {now', exp - 1, exp + 1} :
                  /\ t < exp => decode_access_token(tok, t)
                                  = [ok |-> TRUE, username |-> tokens'[k].username]
                  /\ t > exp => decode_access_token(tok, t)
                                  = [ok |-> FALSE,
                                     error |-> HTTPError(HTTP_401_UNAUTHORIZED,
                                                         "Invalid x_auth_token")]]_vars

C11_Witness ==
    \E k \in 1..Len(tokens) :
        /\ tokens[k].token # EmptyString
        /\ tokens[k].token.claims["exp"] < now
        /\ req.op = "tick"

\* the request of this step passes every check of a non-MFA login
NonMfaLoginPasses ==
    /\ req'.op = "login_user"
    /\ Lookup(req'.username) # 0
    /\ Matches(req'.password, users[Lookup(req'.username)].hashed_password)
    /\ ~users[Lookup(req'.username)].is_mfa

\* the request of this step is a verify_otp with the cached, live code
VerifyOtpPasses ==
    /\ req'.op = "verify_otp"
    /\ Lookup(req'.username) # 0
    /\ OtpEntry(cache, req'.username, req'.host) # NoEntry
    /\ now < OtpEntry(cache, req'.username, req'.host).expires
    /\ req'.otp = OtpEntry(cache, req'.username, req'.host).value

\* C12: when a non-MFA login or a successful verify_otp has issued and
\* cached the token and the insert of the Token document fails, the response
\* still carries the issued token.
C12_TokenReturnedWhenInsertFails ==
    [][((NonMfaLoginPasses \/ VerifyOtpPasses) /\ req'.fault = "insert")
        => /\ cache'[token_key(req'.username, req'.host)] # NoEntry
           /\ HasToken(resp')
           /\ resp'.body.access_token
                = cache'[token_key(req'.username, req'.host)].value]_vars

\* C14: create_user with a username that is already stored is handled as a
\* login attempt: no user record is inserted, and a password that does not
\* match the stored hash is answered with 401.
C14_ExistingUsernameIsLoginAttempt ==
    [][(req'.op = "create_user" /\ Lookup(req'.username) # 0)
        => /\ users' = users
           /\ ~Matches(req'.password,
                       users[Lookup(req'.username)].hashed_password)
                => resp'.status = HTTP_401_UNAUTHORIZED]_vars

\* C15: the user collection holds at most one record per username.
C15_UsernameUnique ==
    \A i, j \in 1..Len(users) :
        users[i].username = users[j].username => i = j

\* C16: create_user writes no cache entry, appends no Token record, sends
\* no mail and returns no access token, whether the username is new or
\* stored and whether or not the password matches.
C16_CreateUserIssuesNoToken ==
    [][req'.op = "create_user"
        => /\ cache' = cache
           /\ tokens' = tokens
           /\ mail' = <<>>
           /\ ~HasToken(resp')]_vars

\* a create_user for a stored username with a password other than the stored one
C16_Witness ==
    /\ req.op = "create_user"
    /\ resp.status = HTTP_201_CREATED
    /\ \E i \in 1..(Len(users) - 1) :
          /\ users[i].username = req.username
          /\ ~Matches(req.password, users[i].hashed_password)

\* C17: a login with the correct password for a user with is_mfa true and no
\* email is answered with 400; no OTP is cached, no mail is sent and no
\* token is issued, cached or recorded.
C17_MfaWithoutEmailBadRequest ==
    [][(/\ req'.op = "login_user"
        /\ Lookup(req'.username) # 0
        /\ Matches(req'.password, users[Lookup(req'.username)].hashed_password)
        /\ users[Lookup(req'.username)].is_mfa
        /\ users[Lookup(req'.username)].email \in {None, ""})
       => /\ resp'.status = HTTP_400_BAD_REQUEST
          /\ ~HasToken(resp')
          /\ mail' = <<>>
          /\ cache' = cache /\ tokens' = tokens /\ users' = users]_vars

C17_Witness ==
    /\ IsLogin
    /\ Lookup(req.username) # 0
    /\ Matches(req.password, users[Lookup(req.username)].hashed_password)
    /\ users[Lookup(req.username)].is_mfa
    /\ users[Lookup(req.username)].email = None
    /\ resp.status = HTTP_400_BAD_REQUEST

\* the user record a token's subject names, 0 if the token is not valid now
TokenUser(x_auth_token) ==
    IF decode_access_token(x_auth_token, now).ok
    THEN Lookup(decode_access_token(x_auth_token, now).username)
    ELSE 0

\* C18: change_password with a valid token of a stored user replaces the
\* stored hash exactly when the old password verifies and new_password
\* equals verify_new_password; a wrong old password is answered with 401, a
\* confirmation mismatch with 400, and in both cases the user records are
\* unchanged, so the passwords that verify afterwards are those of before.
C18_ChangePasswordChecks ==
    [][(req'.op = "change_password" /\ TokenUser(req'.x_auth_token) # 0)
       => LET i == TokenUser(req'.x_auth_token)
              old_ok == Matches(req'.old_password, users[i].hashed_password)
              confirmed == req'.new_password = req'.verify_new_password
          IN  /\ ~old_ok => resp'.status = HTTP_401_UNAUTHORIZED
              /\ (old_ok /\ ~confirmed) => resp'.status = HTTP_400_BAD_REQUEST
              /\ (old_ok /\ confirmed)
                    => /\ resp'.status = HTTP_200_OK
                       /\ Matches(req'.new_password, users'[i].hashed_password)
                       /\ users' = [users EXCEPT
                              ![i].hashed_password = users'[i].hashed_password,
                              ![i].password = users'[i].password]
              /\ ~(old_ok /\ confirmed)
                    => /\ users' = users
                       /\ \A p \in Passwords :
                            verify_password(p, users'[i].hashed_password)
                                <=> Matches(p, users[i].hashed_password)]_vars

C18_Witness ==
    /\ req.op = "change_password"
    /\ TokenUser(req.x_auth_token) # 0
    /\ Matches(req.old_password,
               users[TokenUser(req.x_auth_token)].hashed_password)
    /\ req.new_password # req.verify_new_password
    /\ resp.status = HTTP_400_BAD_REQUEST

LogoutSuccessResponse ==
    Ok(HTTP_200_OK, [msg |-> "User logged out successfully"])

\* C19: a logout with a valid token of a stored user, in which the save of
\* the user record fails or the insert of the revocation record fails, ends
\* with 500 and not with the success message.
C19_LogoutWriteFailureIsInternalError ==
    [][(/\ req'.op = "logout_user"
        /\ TokenUser(req'.x_auth_token) # 0
        /\ req'.fault \in {"save", "insert"})
       => /\ resp'.status = HTTP_500_INTERNAL_SERVER_ERROR
          /\ resp' # LogoutSuccessResponse
          /\ "msg" \notin DOMAIN resp'.body
          /\ tokens' = tokens]_vars

C19_Witness ==
    /\ req.op = "logout_user"
    /\ TokenUser(req.x_auth_token) # 0
    /\ req.fault = "insert"
    /\ users[TokenUser(req.x_auth_token)].is_delete
    /\ resp.status = HTTP_500_INTERNAL_SERVER_ERROR

\* C20: when send_otp fails during an MFA login (correct password, email
\* registered), the request ends as an error, send_otp has been called
\* exactly once, and the response is neither the OTP acknowledgment nor a
\* token; no token is cached or recorded.
C20_SendFailureSurfaced ==
    [][(/\ req'.op = "login_user"
        /\ Lookup(req'.username) # 0
        /\ Matches(req'.password, users[Lookup(req'.username)].hashed_password)
        /\ users[Lookup(req'.username)].is_mfa
        /\ users[Lookup(req'.username)].email \notin {None, ""}
        /\ req'.fault = "send_otp")
       => /\ resp'.status = HTTP_500_INTERNAL_SERVER_ERROR
          /\ Len(mail') = 1
          /\ mail'[1].email_to = users[Lookup(req'.username)].email
          /\ resp' # OtpSentResponse
          /\ ~HasToken(resp')
          /\ tokens' = tokens
          /\ cache'[token_key(req'.username, req'.host)]
                = cache[token_key(req'.username, req'.host)]]_vars

C20_Witness ==
    /\ IsLogin
    /\ req.fault = "send_otp"
    /\ Len(mail) = 1
    /\ resp = ServerError
    /\ OtpEntry(cache, req.username, req.host) # NoEntry

\* both logins were MFA logins of one username from one host, both have
\* answered with the acknowledgment, and they drew distinct codes
TwoOtpLoginsAnswered(ts) ==
    /\ \A c \in Conns : ts[c].pc = "done" /\ ts[c].wrote # 0
                          /\ ts[c].resp = OtpSentResponse
    /\ \A c, d \in Conns :
          /\ ts[c].username = ts[d].username
          /\ ts[c].host = ts[d].host
          /\ c # d => ts[c].otp # ts[d].otp

\* the code of the login whose set_with_ttl ran last, and the other one
LastOtp(ts) == ts[CHOOSE c \in Conns : ts[c].wrote = OtpWrites(ts)].otp
OverwrittenOtp(ts) == ts[CHOOSE c \in Conns : ts[c].wrote # OtpWrites(ts)].otp

\* C13: after two concurrent MFA logins of one username from one host with
\* distinct OTPs have both completed, the cache holds the OTP whose
\* set_with_ttl ran last; while that entry is live, verify_otp with it
\* issues a token and verify_otp with the overwritten OTP is answered 401.
C13_LastOtpWriteWins ==
    [][/\ TwoOtpLoginsAnswered(tasks')
            => \A c \in Conns :
                 OtpEntry(cache', tasks'[c].username, tasks'[c].host).value
                    = LastOtp(tasks')
       /\ (/\ TwoOtpLoginsAnswered(tasks)
           /\ req'.op = "verify_otp"
           /\ \A c \in Conns : /\ req'.username = tasks[c].username
                                /\ req'.host = tasks[c].host
           /\ now < OtpEntry(cache, req'.username, req'.host).expires)
          => /\ req'.otp = LastOtp(tasks)
                  => /\ resp'.status = HTTP_200_OK
                     /\ HasToken(resp')
                     /\ decode_access_token(resp'.body.access_token, now)
                          = [ok |-> TRUE, username |-> req'.username]
             /\ req'.otp = OverwrittenOtp(tasks)
                  => /\ resp'.status = HTTP_401_UNAUTHORIZED
                     /\ ~HasToken(resp')
                     /\ tokens' = tokens]_vars

\* a verify_otp with the overwritten code after both logins completed
C13_Witness ==
    /\ TwoOtpLoginsAnswered(tasks)
    /\ req.op = "verify_otp"
    /\ \A c \in Conns : /\ req.username = tasks[c].username
                         /\ req.host = tasks[c].host
    /\ req.otp = OverwrittenOtp(tasks)
    /\ resp.status = HTTP_401_UNAUTHORIZED
    /\ \E k \in 1..Len(tokens) : tokens[k].token # EmptyString

UsernamesOf(us) == [i \in 1..Len(us) |-> us[i].username]

\* C23: no operation changes the username of a stored user record:
\* create_user only appends a record, delete_user only removes one, and
\* every other operation (update_user, change_password, mfa_enabled,
\* verify_token, logout_user, verify_otp, login_user) leaves the usernames
\* of the records as they were.
C23_UsernameImmutable ==
    [][IF req'.op = "create_user"
       THEN SubSeq(UsernamesOf(users'), 1, Len(users)) = UsernamesOf(users)
       ELSE IF req'.op = "delete_user"
       THEN \/ users' = users
            \/ \E i \in 1..Len(users) : users' = RemoveAt(users, i)
       ELSE UsernamesOf(users') = UsernamesOf(users)]_vars

\* an update_user whose body names another username has been applied
C23_Witness ==
    /\ req.op = "update_user"
    /\ "username" \in DOMAIN req.body
    /\ resp.status = HTTP_200_OK
    /\ Lookup(req.username) # 0
    /\ users[Lookup(req.username)].role = req.body.role

\* C21: the Token collection is append-only and every record in it has
\* active = false: each step keeps the earlier records as they were, in
\* place, and no record of the collection is active.
C21_TokenLogAppendOnly ==
    [][/\ Len(tokens') >= Len(tokens)
       /\ SubSeq(tokens', 1, Len(tokens)) = tokens
       /\ \A k \in 1..Len(tokens') : ~tokens'[k].active]_vars

\* a token record followed by the record of a logout
C21_Witness ==
    \E j, k \in 1..Len(tokens) :
        /\ j < k
        /\ tokens[j].token # EmptyString
        /\ tokens[k].token = EmptyString
        /\ req.op = "logout_user"

\* this step issues a token for the request's username and host: it caches
\* the token under the token key for 1800 seconds, appends one Token record
\* with the username and the token, and returns the token
IssuesToken ==
    /\ resp'.status = HTTP_200_OK
    /\ HasToken(resp')
    /\ decode_access_token(resp'.body.access_token, now)
         = [ok |-> TRUE, username |-> req'.username]
    /\ cache' = [cache EXCEPT
                   !["user-token-" \o req'.username \o "-" \o req'.host] =
                       [value |-> resp'.body.access_token,
                        expires |-> now + 1800]]
    /\ tokens' = Append(tokens, [username |-> req'.username,
                                 token |-> resp'.body.access_token,
                                 active |-> FALSE])

\* C22: a successful verify_otp has the token-issuing effects of a
\* successful non-MFA login: each caches the new token under the token key
\* of the username and host for 1800 seconds, appends exactly one Token
\* record with that username and token and returns the token; the cache, the
\* Token collection and the token after verify_otp are those a non-MFA login
\* of the same user from the same host would leave; verify_otp also leaves
\* the otp field of the user record empty.
C22_VerifyOtpIssuesAsLogin ==
    [][/\ NonMfaLoginPasses => (IssuesToken /\ users' = users)
       /\ VerifyOtpPasses
            => LET i == Lookup(req'.username)
               IN  /\ IssuesToken
                   /\ users' = [users EXCEPT ![i].otp = None]
                   /\ users'[i].otp = None
                   /\ \A p \in Passwords, n \in OtpDraws :
                        Matches(p, users[i].hashed_password)
                        => LET r == login_user(
                                      [State EXCEPT !.users[i].is_mfa = FALSE],
                                      req'.host, req'.username, p, n, now,
                                      TRUE, TRUE)
                           IN  /\ cache' = r.cache
                               /\ tokens' = r.tokens
                               /\ resp'.body.access_token
                                    = r.resp.body.access_token
                               /\ resp'.body.token_type
                                    = r.resp.body.token_type]_vars

C22_Witness ==
    /\ req.op = "verify_otp"
    /\ HasToken(resp)
    /\ Len(tokens) = 1
    /\ cache[token_key(req.username, req.host)] # NoEntry
    /\ users[Lookup(req.username)].is_mfa

\* C24: after a successful logout called with token T, a token-protected
\* operation called with T is rejected (stated for the request that follows
\* the logout).
C24_LoggedOutTokenRejected ==
    [][(/\ req.op = "logout_user"
        /\ resp = LogoutSuccessResponse
        /\ req'.op \in ProtectedOps
        /\ req'.x_auth_token = req.x_auth_token)
       => resp'.status >= HTTP_400_BAD_REQUEST]_vars

\* C25: an OTP is one-time: a verify_otp that follows a successful
\* verify_otp with the same username, host and code issues no other token.
C25_OtpAcceptedOnce ==
    [][(/\ req.op = "verify_otp"
        /\ HasToken(resp)
        /\ req'.op = "verify_otp"
        /\ req'.username = req.username
        /\ req'.host = req.host
        /\ req'.otp = req.otp)
       => /\ ~HasToken(resp')
          /\ tokens' = tokens]_vars

\* C29: the record that create_user inserts carries the is_mfa flag of the
\* request.
C29_CreateUserStoresMfaFlag ==
    (req.op = "create_user" /\ resp.status = HTTP_201_CREATED)
        => users[Len(users)].is_mfa = req.is_mfa

\* C26: a token that verify_otp issues for username u from host h is
\* preceded, less than 120 seconds earlier, by a login for u from h whose
\* password matched the stored hash and which found is_mfa true.  Stated as
\* two facts about every step: the OTP entry of (u, h) is written only by
\* such a login, which sets its expiry to 120 seconds after the login; and
\* verify_otp issues a token only while that entry exists, has not reached
\* its expiry and holds the submitted code, so with no such login it issues
\* no token whatever the code.
C26_VerifyOtpNeedsRecentMfaLogin ==
    [][/\ \A u \in Usernames, h \in Hosts :
            OtpEntry(cache', u, h) # OtpEntry(cache, u, h)
            => /\ req'.op = "login_user"
               /\ req'.username = u /\ req'.host = h
               /\ Lookup(u) # 0
               /\ Matches(req'.password, users[Lookup(u)].hashed_password)
               /\ users[Lookup(u)].is_mfa
               /\ OtpEntry(cache', u, h).expires = now + 120
       /\ (req'.op = "verify_otp" /\ (HasToken(resp') \/ tokens' # tokens))
            => /\ OtpEntry(cache, req'.username, req'.host) # NoEntry
               /\ OtpEntry(cache, req'.username, req'.host).expires - 120 <= now
               /\ now < OtpEntry(cache, req'.username, req'.host).expires
               /\ OtpEntry(cache, req'.username, req'.host).value = req'.otp]_vars

\* a token issued by verify_otp 119 seconds after the login
C26_Witness ==
    /\ req.op = "verify_otp"
    /\ HasToken(resp)
    /\ OtpEntry(cache, req.username, req.host).expires = now + 1

\* the cache entry under the key text of an OTP for a username and a host
OtpAt(c, username, host) ==
    IF ("user-otp-" \o username \o "-" \o host) \in DOMAIN c
    THEN c["user-otp-" \o username \o "-" \o host]
    ELSE NoEntry

NoLiveOtpAt(c, username, host, t) ==
    \/ OtpAt(c, username, host) = NoEntry
    \/ t >= OtpAt(c, username, host).expires

C28_FailedVerifyKeepsOtp ==
    [][/\ (req'.op = "verify_otp" /\ resp'.status = HTTP_401_UNAUTHORIZED)
          => UNCHANGED <<cache, users, tokens>>
       /\ (/\ req.op = "verify_otp"
           /\ resp.status = HTTP_401_UNAUTHORIZED
           /\ req'.op = "verify_otp"
           /\ req'.username = req.username
           /\ req'.host = req.host
           /\ Lookup(req'.username) # 0
           /\ ~NoLiveOtpAt(cache, req'.username, req'.host, now)
           /\ req'.otp = OtpAt(cache, req'.username, req'.host).value)
          => /\ resp'.status = HTTP_200_OK
             /\ HasToken(resp')
             /\ Len(tokens') = Len(tokens) + 1]_vars

\* a failed verify_otp with the OTP still cached and live
C28_Witness ==
    /\ req.op = "verify_otp"
    /\ resp.status = HTTP_401_UNAUTHORIZED
    /\ ~NoLiveOtpAt(cache, req.username, req.host, now)
    /\ req.otp # OtpAt(cache, req.username, req.host).value

\* the user records with the three flags of every record set to d, e and v
WithFlags(us, d, e, v) ==
    [i \in 1..Len(us) |->
        [us[i] EXCEPT !.is_delete = d, !.is_enabled = e, !.is_verify = v]]

\* C30: the outcome of login does not depend on is_delete, is_enabled or
\* is_verify: after every login, the same request against the store with
\* any setting of the three flags in the user records (login leaves the
\* user records as they are) gives the same response and mail, writes the
\* cache entry that is there and appends the Token record that was
\* appended; and a user with is_delete true who submitted the correct
\* password got a token or, with MFA and an email, the OTP acknowledgment.
C30_LoginIgnoresAccountFlags ==
    IsLogin
    => /\ \A d, e, v \in BOOLEAN : \E n \in OtpDraws :
            LET r == login_user(
                       [State EXCEPT !.users = WithFlags(users, d, e, v)],
                       req.host, req.username, req.password, n, now,
                       TRUE, TRUE)
            IN  /\ r.resp = resp
                /\ r.mail = mail
                /\ r.cache = cache
                /\ r.tokens = IF HasToken(resp)
                              THEN Append(tokens, tokens[Len(tokens)])
                              ELSE tokens
       /\ (/\ Lookup(req.username) # 0
           /\ users[Lookup(req.username)].is_delete
           /\ Matches(req.password,
                      users[Lookup(req.username)].hashed_password))
          => IF ~users[Lookup(req.username)].is_mfa
             THEN HasToken(resp)
             ELSE users[Lookup(req.username)].email \notin {None, ""}
                     => resp = OtpSentResponse

\* a token issued by login to a user that a logout has marked deleted
C30_Witness ==
    /\ IsLogin
    /\ Lookup(req.username) # 0
    /\ users[Lookup(req.username)].is_delete
    /\ HasToken(resp)
====
